---- MODULE Spec2Model ----
(***************************************************************************)
(* MeshBuilder (core/src/meshing/MeshBuilder.cpp): addPolygon, the two     *)
(* addPlane overloads and addTriangle appending to one caller-owned Mesh.  *)
(*                                                                         *)
(* Doubles are modelled as integers; the coordinates used are multiples of *)
(* the tile's width and height so that the divisions of createMapFunc are  *)
(* exact.  Pointers are strings: "nullptr", "uninit" (a field the code     *)
(* never assigned) or the name of the buffer pointed to.                   *)
(***************************************************************************)
EXTENDS Integers, Sequences, FiniteSets, TLC

VARIABLES mesh, call

vars == <<mesh, call>>

(* ------------------------------ bounds -------------------------------- *)

\* a call is taken only while the Mesh holds at most this many vertices afterwards
MaxVertices == 9
\* most triangles one triangulation returns
MaxTriangles == 2
\* most Steiner points the refinement pass inserts
MaxSteiner == 1
\* geometryOptions.segmentSplit of the calls
SegmentSplit == 1

(* --------------------------- program constants ------------------------ *)

\* std::numeric_limits<double>::lowest(), the "sample the provider" sentinel
Lowest == -1000
\* std::numeric_limits<double>::epsilon(), on the integer scale of area
Epsilon == 1

NullPtr == "nullptr"
Uninit == "uninit"

Max(a, b) == IF a >= b THEN a ELSE b
Abs(a) == IF a < 0 THEN -a ELSE a
Range(s) == {s[i] : i \in 1..Len(s)}

(* ----------------------- external collaborators ----------------------- *)

\* ElevationProvider::getElevation(latitude, longitude)
getElevation(latitude, longitude) == 100 + 10 * latitude + longitude

\* NoiseUtils::perlin2D(x, y, freq): deterministic, never 0 here, in [-1, 1]
perlin2D(x, y, freq) == IF ((x + 2 * y) \div 2 + freq) % 2 = 0 THEN 1 ELSE -1

\* ColorGradient::evaluate(t), t in [0, 1]
evaluate(gradient, t) == gradient * 2 + t

\* GradientUtils::getColor(gradient, x, y, freq)
getColor(gradient, x, y, freq) == evaluate(gradient, (perlin2D(x, y, freq) + 1) \div 2)

\* GeoUtils::quadKeyToBoundingBox(quadKey): the tile of the builder
bbox == [minPoint |-> [latitude |-> 0, longitude |-> -2],
         maxPoint |-> [latitude |-> 2, longitude |-> 0]]

\* TextureRegion::isEmpty()
isEmpty(region) == region.width = 0 \/ region.height = 0

\* TextureRegion::map(uv)
regionMap(region, uv) == <<region.x + region.width * uv[1], region.y + region.height * uv[2]>>

(* ------------------------------- inputs ------------------------------- *)

EmptyRegion == [x |-> 1, y |-> 1, width |-> 0, height |-> 0]
AtlasRegion == [x |-> 1, y |-> 1, width |-> 2, height |-> 2]

GeometryOptionsSet ==
    [area : {0, 1}, segmentSplit : {SegmentSplit}, elevation : {Lowest, 7},
     eleNoiseFreq : {1}, heightOffset : {3}, flipSide : BOOLEAN, hasBackSide : BOOLEAN]

AppearanceOptionsSet ==
    [gradient : {8}, colorNoiseFreq : {1}, textureRegion : {EmptyRegion, AtlasRegion},
     textureScale : {1}]

\* a triangle closed by three constrained segments, and a fourth point inside it
Polygons ==
    {[points |-> <<0, 0, 8, 0, 0, 8, 2, 2>>, holes |-> <<>>,
      segments |-> <<0, 1, 1, 2, 2, 0>>]}

Vector2Set == {<<0, 0>>, <<2, 0>>}
\* (v0, v1, v2): two triangles of distinct points and a degenerate one
TrianglePoints ==
    {<<<<0, 1, 0>>, <<2, 5, 0>>, <<0, 3, 2>>>>,
     <<<<2, 5, 0>>, <<0, 3, 2>>, <<0, 1, 0>>>>,
     <<<<0, 1, 0>>, <<2, 5, 0>>, <<0, 1, 0>>>>}
ExplicitElevations == {5, 6}

(* -------------------------------- Mesh -------------------------------- *)

\* std::vector contents plus the capacity each vector is guaranteed to have
EmptyMesh ==
    [vertices |-> <<>>, triangles |-> <<>>, colors |-> <<>>, uvs |-> <<>>,
     capacity |-> [vertices |-> 0, triangles |-> 0, colors |-> 0, uvs |-> 0]]

\* std::vector::push_back
push_back(m, f, v) ==
    [m EXCEPT ![f] = Append(@, v), !.capacity[f] = Max(@, Len(m[f]) + 1)]

\* std::vector::reserve
reserve(m, f, n) == [m EXCEPT !.capacity[f] = Max(@, n)]

\* mesh.vertices.size() / 3
vertexCount(m) == Len(m.vertices) \div 3

(* ------------------------------ addVertex ----------------------------- *)

\* addVertex with one of its two uv values forgotten
addVertex_OneUv(m, p, ele, color, triIndex) ==
    LET m1 == push_back(m, "vertices", p[1])
        m2 == push_back(m1, "vertices", p[2])
        m3 == push_back(m2, "vertices", ele)
        m4 == push_back(m3, "colors", color)
        m5 == push_back(m4, "uvs", 0)
    IN  push_back(m5, "triangles", triIndex)

addVertex(m, p, ele, color, triIndex) ==
    LET m1 == push_back(m, "vertices", p[1])
        m2 == push_back(m1, "vertices", p[2])
        m3 == push_back(m2, "vertices", ele)
        m4 == push_back(m3, "colors", color)
        m5 == push_back(m4, "uvs", 0)
        m6 == push_back(m5, "uvs", 0)
    IN  push_back(m6, "triangles", triIndex)

\* the Vector3 overload: Vector2(vertex.x, vertex.z), vertex.y
addVertex3(m, vertex, color, triIndex) ==
    addVertex(m, <<vertex[1], vertex[3]>>, vertex[2], color, triIndex)

(* ------------------------------ addPlane ------------------------------ *)

\* addPlane with the top of p2 raised from the elevation of p1
addPlaneEle_TopFromFirst(m, p1, p2, ele1, ele2, go, ao) ==
    LET color == evaluate(ao.gradient,
                          (perlin2D(p1[1], p1[2], ao.colorNoiseFreq) + 1) \div 2)
        index == vertexCount(m)
        m1 == addVertex(m, p1, ele1, color, index)
        m2 == addVertex(m1, p2, ele2, color, index + 2)
        m3 == addVertex(m2, p2, ele1 + go.heightOffset, color, index + 1)
        index2 == index + 3
        m4 == addVertex(m3, p1, ele1 + go.heightOffset, color, index2)
        m5 == addVertex(m4, p1, ele1, color, index2 + 2)
    IN  addVertex(m5, p2, ele2 + go.heightOffset, color, index2 + 1)

\* addPlane with every vertex indexed by its own position
addPlaneEle_PlainIndices(m, p1, p2, ele1, ele2, go, ao) ==
    LET color == evaluate(ao.gradient,
                          (perlin2D(p1[1], p1[2], ao.colorNoiseFreq) + 1) \div 2)
        index == vertexCount(m)
        m1 == addVertex(m, p1, ele1, color, index)
        m2 == addVertex(m1, p2, ele2, color, index + 1)
        m3 == addVertex(m2, p2, ele2 + go.heightOffset, color, index + 2)
        index2 == index + 3
        m4 == addVertex(m3, p1, ele1 + go.heightOffset, color, index2)
        m5 == addVertex(m4, p1, ele1, color, index2 + 1)
    IN  addVertex(m5, p2, ele2 + go.heightOffset, color, index2 + 2)

addPlaneEle(m, p1, p2, ele1, ele2, go, ao) ==
    LET color == evaluate(ao.gradient,
                          (perlin2D(p1[1], p1[2], ao.colorNoiseFreq) + 1) \div 2)
        index == vertexCount(m)
        m1 == addVertex(m, p1, ele1, color, index)
        m2 == addVertex(m1, p2, ele2, color, index + 2)
        m3 == addVertex(m2, p2, ele2 + go.heightOffset, color, index + 1)
        index2 == index + 3
        m4 == addVertex(m3, p1, ele1 + go.heightOffset, color, index2)
        m5 == addVertex(m4, p1, ele1, color, index2 + 2)
    IN  addVertex(m5, p2, ele2 + go.heightOffset, color, index2 + 1)

\* elevations sampled from the provider and perturbed by noise
planeElevation(p, go) ==
    getElevation(p[2], p[1]) + perlin2D(p[1], p[2], go.eleNoiseFreq)

addPlane(m, p1, p2, go, ao) ==
    addPlaneEle(m, p1, p2, planeElevation(p1, go), planeElevation(p2, go), go, ao)

(* ----------------------------- addTriangle ---------------------------- *)

addTriangle(m, v0, v1, v2, go, ao) ==
    LET color == evaluate(ao.gradient,
                          (perlin2D(v0[1], v0[3], ao.colorNoiseFreq) + 1) \div 2)
        startIndex == vertexCount(m)
        m1 == addVertex3(m, v0, color, startIndex)
        m2 == addVertex3(m1, v1, color, startIndex + 1)
        m3 == addVertex3(m2, v2, color, startIndex + 2)
        \* startIndex is now startIndex + 2; the back side starts from it
        b1 == addVertex3(m3, v2, color, startIndex + 2)
        b2 == addVertex3(b1, v1, color, startIndex + 3)
        b3 == addVertex3(b2, v0, color, startIndex + 4)
    IN  IF go.hasBackSide THEN b3 ELSE m3

(* ---------------------------- createMapFunc --------------------------- *)

\* createMapFunc without its test for an empty region
createMapFunc_NoEmptyCheck(ao, x, y) ==
    LET geoHeight == bbox.maxPoint.latitude - bbox.minPoint.latitude
        geoWidth == bbox.maxPoint.longitude - bbox.minPoint.longitude
        geoX == bbox.minPoint.longitude
        geoY == bbox.minPoint.latitude
        relX == ((x - geoX) \div geoWidth) * ao.textureScale
        relY == ((y - geoY) \div geoHeight) * ao.textureScale
    IN  regionMap(ao.textureRegion, <<relX, relY>>)

\* the mapping function createMapFunc returns, applied to (x, y)
createMapFunc(ao, x, y) ==
    IF isEmpty(ao.textureRegion)
    THEN <<0, 0>>
    ELSE LET geoHeight == bbox.maxPoint.latitude - bbox.minPoint.latitude
             geoWidth == bbox.maxPoint.longitude - bbox.minPoint.longitude
             geoX == bbox.minPoint.longitude
             geoY == bbox.minPoint.latitude
             relX == ((x - geoX) \div geoWidth) * ao.textureScale
             relY == ((y - geoY) \div geoHeight) * ao.textureScale
         IN  regionMap(ao.textureRegion, <<relX, relY>>)

(* -------------------------- ensureMeshCapacity ------------------------ *)

\* ensureMeshCapacity resizing the vectors to the expected counts
ensureMeshCapacity_Resize(m, pointCount, triCount) ==
    LET resize(v, n) == [i \in 1..n |-> IF i <= Len(v) THEN v[i] ELSE 0]
    IN  [m EXCEPT !.vertices = resize(@, (pointCount * 3) \div 2),
                  !.triangles = resize(@, triCount * 3),
                  !.colors = resize(@, pointCount),
                  !.uvs = resize(@, pointCount * 2)]

ensureMeshCapacity(m, pointCount, triCount) ==
    LET m1 == reserve(m, "vertices", Len(m.vertices) + (pointCount * 3) \div 2)
        m2 == reserve(m1, "triangles", Len(m.triangles) + triCount * 3)
        m3 == reserve(m2, "colors", Len(m.colors) + pointCount)
    IN  reserve(m3, "uvs", Len(m.uvs) + pointCount * 2)

(* ------------------------------- fillMesh ----------------------------- *)

\* pointElevation adding the noise to every point
pointElevation_NoiseEverywhere(io, go, i) ==
    LET x == io.points[i * 2 + 0 + 1]
        y == io.points[i * 2 + 1 + 1]
        ele == go.heightOffset + (IF go.elevation > Lowest
                                  THEN go.elevation
                                  ELSE getElevation(y, x))
    IN  ele + perlin2D(x, y, go.eleNoiseFreq)

\* elevation of point i of io, i counted from 0
pointElevation(io, go, i) ==
    LET x == io.points[i * 2 + 0 + 1]
        y == io.points[i * 2 + 1 + 1]
        ele == go.heightOffset + (IF go.elevation > Lowest
                                  THEN go.elevation
                                  ELSE getElevation(y, x))
    IN  IF io.pointmarkerlist # NullPtr /\ io.markers[i + 1] # 1
        THEN ele + perlin2D(x, y, go.eleNoiseFreq)
        ELSE ele

\* the loop over points, from point i on
RECURSIVE fillPoints(_, _, _, _, _)
fillPoints(io, m, go, ao, i) ==
    IF i >= io.numberofpoints
    THEN m
    ELSE LET x == io.points[i * 2 + 0 + 1]
             y == io.points[i * 2 + 1 + 1]
             m1 == push_back(m, "vertices", x)
             m2 == push_back(m1, "vertices", y)
             m3 == push_back(m2, "vertices", pointElevation(io, go, i))
             m4 == push_back(m3, "colors",
                             getColor(ao.gradient, x, y, ao.colorNoiseFreq))
             uv == createMapFunc(ao, x, y)
             m5 == push_back(m4, "uvs", uv[1])
             m6 == push_back(m5, "uvs", uv[2])
         IN  fillPoints(io, m6, go, ao, i + 1)

\* triangleCorners without the offset of the vertices already in the Mesh
triangleCorners_NoOffset(io, go, triStartIndex, i) ==
    LET first == IF go.flipSide THEN 2 ELSE 1
        second == 0
        third == IF go.flipSide THEN 1 ELSE 2
    IN  <<io.triangles[i * io.numberofcorners + first + 1],
          io.triangles[i * io.numberofcorners + second + 1],
          io.triangles[i * io.numberofcorners + third + 1]>>

\* triangleCorners with the two orders exchanged
triangleCorners_FlipExchanged(io, go, triStartIndex, i) ==
    LET first == IF go.flipSide THEN 1 ELSE 2
        second == 0
        third == IF go.flipSide THEN 2 ELSE 1
    IN  <<triStartIndex + io.triangles[i * io.numberofcorners + first + 1],
          triStartIndex + io.triangles[i * io.numberofcorners + second + 1],
          triStartIndex + io.triangles[i * io.numberofcorners + third + 1]>>

\* the three corners of triangle i, in the order they are appended
triangleCorners(io, go, triStartIndex, i) ==
    LET first == IF go.flipSide THEN 2 ELSE 1
        second == 0
        third == IF go.flipSide THEN 1 ELSE 2
    IN  <<triStartIndex + io.triangles[i * io.numberofcorners + first + 1],
          triStartIndex + io.triangles[i * io.numberofcorners + second + 1],
          triStartIndex + io.triangles[i * io.numberofcorners + third + 1]>>

\* the loop over triangles, from triangle i on
RECURSIVE fillTriangles(_, _, _, _, _)
fillTriangles(io, m, go, triStartIndex, i) ==
    IF i >= io.numberoftriangles
    THEN m
    ELSE LET c == triangleCorners(io, go, triStartIndex, i)
             m1 == push_back(m, "triangles", c[1])
             m2 == push_back(m1, "triangles", c[2])
             m3 == push_back(m2, "triangles", c[3])
         IN  fillTriangles(io, m3, go, triStartIndex, i + 1)

fillMesh(io, m, go, ao) ==
    LET triStartIndex == vertexCount(m)
        m1 == ensureMeshCapacity(m, io.numberofpoints, io.numberoftriangles)
        m2 == fillPoints(io, m1, go, ao, 0)
    IN  fillTriangles(io, m2, go, triStartIndex, 0)

\* the buffers of io that fillMesh dereferences
fillMeshReads(io) ==
    (IF io.numberofpoints > 0 THEN <<<<"read", io.pointlist>>>> ELSE <<>>)
    \o (IF io.numberofpoints > 0 /\ io.pointmarkerlist # NullPtr
        THEN <<<<"read", io.pointmarkerlist>>>> ELSE <<>>)
    \o (IF io.numberoftriangles > 0 THEN <<<<"read", io.trianglelist>>>> ELSE <<>>)

(* ----------------------------- triangulate ---------------------------- *)

\* a triangulateio none of whose fields has been assigned
UninitIO ==
    [numberofpoints |-> 0, numberoftriangles |-> 0, numberofcorners |-> 0,
     numberofsegments |-> 0, numberofholes |-> 0,
     pointlist |-> Uninit, pointattributelist |-> Uninit, pointmarkerlist |-> Uninit,
     trianglelist |-> Uninit, triangleattributelist |-> Uninit,
     trianglearealist |-> Uninit, segmentlist |-> Uninit,
     segmentmarkerlist |-> Uninit, holelist |-> Uninit,
     points |-> <<>>, markers |-> <<>>, triangles |-> <<>>, segments |-> <<>>,
     vertexmark |-> <<>>]

\* what the triangulator decides: the Steiner points it inserts, whether it
\* inserts them on a boundary segment, and the number of triangles it returns
TriangulationChoices ==
    {c \in [steiner : 0..MaxSteiner, triangles : 0..MaxTriangles, onSegment : BOOLEAN] :
       c.steiner = 0 => ~c.onSegment}

\* the pass without quality or area switches inserts no point
ConformingChoices == {c \in TriangulationChoices : c.steiner = 0}

\* refining a triangulation keeps it when no point is inserted, and every
\* inserted point adds triangles
RefinedChoices(conforming) ==
    {c \in TriangulationChoices :
       IF c.steiner = 0 THEN c.triangles = conforming.triangles
       ELSE c.triangles > conforming.triangles}

\* coordinates of the inserted points
RECURSIVE steinerPoints(_)
steinerPoints(k) == IF k = 0 THEN <<>> ELSE steinerPoints(k - 1) \o <<4, 2 * k>>

\* k triangles over n points, corners numbered from firstnumber
RECURSIVE triangleList(_, _, _)
triangleList(n, k, firstnumber) ==
    IF k = 0 \/ n = 0
    THEN <<>>
    ELSE triangleList(n, k - 1, firstnumber)
         \o <<((k - 1) % n) + firstnumber, (k % n) + firstnumber,
              ((k + 1) % n) + firstnumber>>

\* the triangulator's boundary mark of each point, 1 on the boundary: an input
\* point is on the boundary when a segment ends at it, a point of a mesh to
\* refine keeps its mark, an inserted point is marked by where it is inserted
vertexMarks(in, refine, firstnumber, inserted, onSegment) ==
    [i \in 1..(in.numberofpoints + inserted) |->
       IF i > in.numberofpoints THEN (IF onSegment THEN 1 ELSE 0)
       ELSE IF refine THEN in.vertexmark[i]
       ELSE IF (i - 1 + firstnumber) \in Range(in.segments) THEN 1 ELSE 0]

\* an output array is allocated where the caller left a null pointer
allocated(ptr, buffer) == IF ptr = NullPtr THEN buffer ELSE ptr

mallocEvents(before, after) ==
    IF before = NullPtr /\ after # NullPtr THEN <<<<"malloc", after>>>> ELSE <<>>

\* ::triangulate(switches, &in, &out, nullptr): the fields of out it sets, and
\* the buffers it reads and allocates.  B suppresses the boundary markers of
\* the output, P its segments, z numbers from zero, r refines the input mesh,
\* a imposes the areas of trianglearealist.
triangulate(switches, in, out, name, choice) ==
    LET sw == Range(switches)
        refine == "r" \in sw
        poly == "p" \in sw
        nobound == "B" \in sw
        nopolywritten == "P" \in sw
        firstnumber == IF "z" \in sw THEN 0 ELSE 1
        inserted == IF "a" \in sw \/ "q" \in sw THEN choice.steiner ELSE 0
        n == in.numberofpoints + inserted
        marks == vertexMarks(in, refine, firstnumber, inserted, choice.onSegment)
        tris == triangleList(n, choice.triangles, firstnumber)
        pointlist == allocated(out.pointlist, name \o ".pointlist")
        pointmarkerlist == IF nobound THEN out.pointmarkerlist
                           ELSE allocated(out.pointmarkerlist, name \o ".pointmarkerlist")
        trianglelist == allocated(out.trianglelist, name \o ".trianglelist")
        segmentlist == IF poly /\ ~nopolywritten
                       THEN allocated(out.segmentlist, name \o ".segmentlist")
                       ELSE out.segmentlist
        segmentmarkerlist == IF poly /\ ~nopolywritten /\ ~nobound
                             THEN allocated(out.segmentmarkerlist,
                                            name \o ".segmentmarkerlist")
                             ELSE out.segmentmarkerlist
        reads == <<<<"read", in.pointlist>>>>
                 \o (IF in.pointmarkerlist # NullPtr
                     THEN <<<<"read", in.pointmarkerlist>>>> ELSE <<>>)
                 \o (IF refine THEN <<<<"read", in.trianglelist>>>> ELSE <<>>)
                 \o (IF refine /\ "a" \in sw /\ in.trianglearealist # NullPtr
                     THEN <<<<"read", in.trianglearealist>>>> ELSE <<>>)
                 \o (IF poly THEN <<<<"read", in.segmentlist>>>> ELSE <<>>)
                 \o (IF poly /\ ~refine /\ in.numberofholes > 0
                     THEN <<<<"read", in.holelist>>>> ELSE <<>>)
    IN  [io |-> [out EXCEPT
                   !.numberofpoints = n,
                   !.numberoftriangles = Len(tris) \div 3,
                   !.numberofcorners = 3,
                   !.numberofsegments = IF poly THEN in.numberofsegments ELSE 0,
                   !.numberofholes = in.numberofholes,
                   !.holelist = IF poly THEN in.holelist ELSE NullPtr,
                   !.pointlist = pointlist,
                   !.pointmarkerlist = pointmarkerlist,
                   !.trianglelist = trianglelist,
                   !.segmentlist = segmentlist,
                   !.segmentmarkerlist = segmentmarkerlist,
                   !.points = in.points \o steinerPoints(inserted),
                   !.markers = IF pointmarkerlist = NullPtr THEN <<>> ELSE marks,
                   !.triangles = tris,
                   !.segments = IF poly THEN in.segments ELSE <<>>,
                   !.vertexmark = marks],
         log |-> reads
                 \o mallocEvents(out.pointlist, pointlist)
                 \o mallocEvents(out.pointmarkerlist, pointmarkerlist)
                 \o mallocEvents(out.trianglelist, trianglelist)
                 \o mallocEvents(out.segmentlist, segmentlist)
                 \o mallocEvents(out.segmentmarkerlist, segmentmarkerlist)]

(* ------------------------------ addPolygon ---------------------------- *)

\* free(ptr): a null pointer is ignored
free(log, ptr) == IF ptr = NullPtr THEN log ELSE Append(log, <<"free", ptr>>)

RECURSIVE freeAll(_, _)
freeAll(log, ptrs) ==
    IF ptrs = <<>> THEN log ELSE freeAll(free(log, Head(ptrs)), Tail(ptrs))

\* "prazPQ" followed by segmentSplit times "Y"
triOptions(segmentSplit) ==
    <<"p", "r", "a", "z", "P", "Q">> \o [i \in 1..segmentSplit |-> "Y"]

\* the releases of lines 82-89 with in.pointlist for in.pointmarkerlist
freeInAndMid_FreesInput(log, in, mid) ==
    freeAll(log, <<in.pointlist, mid.pointlist, mid.pointmarkerlist,
                   mid.trianglelist, mid.trianglearealist, mid.segmentlist,
                   mid.segmentmarkerlist>>)

\* the releases that end addPolygon
freeInAndMid(log, in, mid) ==
    freeAll(log, <<in.pointmarkerlist, mid.pointlist, mid.pointmarkerlist,
                   mid.trianglelist, mid.trianglearealist, mid.segmentlist,
                   mid.segmentmarkerlist>>)

\* the releases of the refined result
freeOut(log, out) ==
    freeAll(log, <<out.pointlist, out.pointattributelist, out.trianglelist,
                   out.triangleattributelist, out.pointmarkerlist>>)

\* conforming and refined are the triangulator's decisions in its two passes
addPolygon(m, polygon, go, ao, conforming, refined) ==
    LET in == [UninitIO EXCEPT
                 !.numberofpoints = Len(polygon.points) \div 2,
                 !.numberofholes = Len(polygon.holes) \div 2,
                 !.numberofsegments = Len(polygon.segments) \div 2,
                 !.pointlist = "polygon.points",
                 !.holelist = "polygon.holes",
                 !.segmentlist = "polygon.segments",
                 !.segmentmarkerlist = NullPtr,
                 !.pointmarkerlist = NullPtr,
                 !.points = polygon.points,
                 !.segments = polygon.segments]
        mid0 == [UninitIO EXCEPT
                   !.pointlist = NullPtr,
                   !.pointmarkerlist = NullPtr,
                   !.trianglelist = NullPtr,
                   !.segmentlist = NullPtr,
                   !.segmentmarkerlist = NullPtr]
        t1 == triangulate(<<"p", "z", "B", "Q">>, in, mid0, "mid", conforming)
        mid == t1.io
    IN  IF Abs(go.area) < Epsilon
        THEN LET mid1 == [mid EXCEPT !.trianglearealist = NullPtr]
             IN  [mesh |-> fillMesh(mid, m, go, ao),
                  io |-> mid,
                  refined |-> FALSE,
                  log |-> freeInAndMid(t1.log \o fillMeshReads(mid), in, mid1)]
        ELSE LET arealist == "mid.trianglearealist"
                 mid1 == [mid EXCEPT !.trianglearealist = arealist]
                 out0 == [UninitIO EXCEPT
                            !.pointlist = NullPtr,
                            !.pointattributelist = NullPtr,
                            !.trianglelist = NullPtr,
                            !.triangleattributelist = NullPtr,
                            !.pointmarkerlist = NullPtr]
                 t2 == triangulate(triOptions(go.segmentSplit), mid1, out0, "out",
                                   refined)
                 out == t2.io
                 log == t1.log \o mallocEvents(NullPtr, arealist) \o t2.log
                        \o fillMeshReads(out)
             IN  [mesh |-> fillMesh(out, m, go, ao),
                  io |-> out,
                  refined |-> TRUE,
                  log |-> freeInAndMid(freeOut(log, out), in, mid1)]

(* ---------------------------- the builder ----------------------------- *)

\* the option fields an operation reads
readGeometry(op, go) ==
    IF op = "addPolygon"
    THEN [go EXCEPT !.hasBackSide = FALSE]
    ELSE IF op = "addTriangle"
    THEN [go EXCEPT !.area = 0, !.elevation = Lowest,
                    !.flipSide = FALSE]
    ELSE IF op = "addPlane"
    THEN [go EXCEPT !.area = 0, !.elevation = Lowest,
                    !.flipSide = FALSE, !.hasBackSide = FALSE]
    ELSE [go EXCEPT !.area = 0, !.elevation = Lowest,
                    !.flipSide = FALSE, !.hasBackSide = FALSE]

readAppearance(op, ao) ==
    IF op = "addPolygon"
    THEN ao
    ELSE [ao EXCEPT !.textureRegion = EmptyRegion, !.textureScale = 1]

\* the option bundles as far as op tells them apart
GeometryOptionsOf(op) == {readGeometry(op, go) : go \in GeometryOptionsSet}
AppearanceOptionsOf(op) == {readAppearance(op, ao) : ao \in AppearanceOptionsSet}

NoCall ==
    [op |-> "none", before |-> EmptyMesh,
     go |-> CHOOSE g \in GeometryOptionsOf("addPlane") : TRUE,
     ao |-> CHOOSE a \in AppearanceOptionsOf("addPlane") : TRUE,
     io |-> UninitIO, refined |-> FALSE, log |-> <<>>,
     points |-> <<>>, elevations |-> <<>>]

Init ==
    /\ mesh = EmptyMesh
    /\ call = NoCall

\* the Mesh holds at most MaxVertices vertices after k more
room(k) == vertexCount(mesh) + k <= MaxVertices

AddPolygon ==
    \E polygon \in Polygons, go \in GeometryOptionsOf("addPolygon"),
       ao \in AppearanceOptionsOf("addPolygon"), conforming \in ConformingChoices :
      \E refined \in (IF Abs(go.area) < Epsilon
                      THEN {conforming}
                      ELSE RefinedChoices(conforming)) :
         /\ room(Len(polygon.points) \div 2 + refined.steiner)
         /\ LET r == addPolygon(mesh, polygon, go, ao, conforming, refined)
            IN  /\ mesh' = r.mesh
                /\ call' = [NoCall EXCEPT
                              !.op = "addPolygon", !.before = mesh,
                              !.go = go, !.ao = ao,
                              !.io = r.io, !.refined = r.refined, !.log = r.log]

\* addPlane(mesh, p1, p2, geometryOptions, appearanceOptions)
AddPlane ==
    /\ room(6)
    /\ \E p1 \in Vector2Set, p2 \in Vector2Set, go \in GeometryOptionsOf("addPlane"),
          ao \in AppearanceOptionsOf("addPlane") :
         /\ mesh' = addPlane(mesh, p1, p2, go, ao)
         /\ call' = [NoCall EXCEPT
                       !.op = "addPlane", !.before = mesh, !.go = go, !.ao = ao,
                       !.points = <<p1, p2>>,
                       !.elevations = <<planeElevation(p1, go), planeElevation(p2, go)>>]

\* addPlane(mesh, p1, p2, ele1, ele2, geometryOptions, appearanceOptions)
AddPlaneEle ==
    /\ room(6)
    /\ \E p1 \in Vector2Set, p2 \in Vector2Set, ele1 \in ExplicitElevations,
          ele2 \in ExplicitElevations, go \in GeometryOptionsOf("addPlaneEle"),
          ao \in AppearanceOptionsOf("addPlaneEle") :
         /\ mesh' = addPlaneEle(mesh, p1, p2, ele1, ele2, go, ao)
         /\ call' = [NoCall EXCEPT
                       !.op = "addPlaneEle", !.before = mesh, !.go = go, !.ao = ao,
                       !.points = <<p1, p2>>, !.elevations = <<ele1, ele2>>]

AddTriangle ==
    \E v \in TrianglePoints, go \in GeometryOptionsOf("addTriangle"),
       ao \in AppearanceOptionsOf("addTriangle") :
      /\ room(IF go.hasBackSide THEN 6 ELSE 3)
      /\ mesh' = addTriangle(mesh, v[1], v[2], v[3], go, ao)
      /\ call' = [NoCall EXCEPT
                    !.op = "addTriangle", !.before = mesh, !.go = go, !.ao = ao,
                    !.points = v]

Next == AddPolygon \/ AddPlane \/ AddPlaneEle \/ AddTriangle

Spec == Init /\ [][Next]_vars

(* ------------------------------ properties ---------------------------- *)

IsPrefix(a, b) == Len(a) <= Len(b) /\ SubSeq(b, 1, Len(a)) = a

\* the vertices in the Mesh before and after the last call
nBefore == vertexCount(call.before)
nAfter == vertexCount(mesh)

\* what the last call appended
newVertices == SubSeq(mesh.vertices, Len(call.before.vertices) + 1, Len(mesh.vertices))
newTriangles ==
    SubSeq(mesh.triangles, Len(call.before.triangles) + 1, Len(mesh.triangles))
newColors == SubSeq(mesh.colors, Len(call.before.colors) + 1, Len(mesh.colors))
newUvs == SubSeq(mesh.uvs, Len(call.before.uvs) + 1, Len(mesh.uvs))

\* vertex k of the Mesh, k counted from 0
vertexAt(k) == <<mesh.vertices[3 * k + 1], mesh.vertices[3 * k + 2], mesh.vertices[3 * k + 3]>>

\* the j-th vertex the last call appended, j counted from 1
appended(j) == vertexAt(nBefore + j - 1)

\* the points of the t-th triangle the last call appended, read through its
\* three entries of triangles
trianglePoints(t) ==
    <<vertexAt(newTriangles[3 * t - 2]), vertexAt(newTriangles[3 * t - 1]),
      vertexAt(newTriangles[3 * t])>>

isPlane == call.op \in {"addPlane", "addPlaneEle"}

\* C1: the three per-vertex sequences of the Mesh always agree in length
\* (vertices = 3 * colors, uvs = 2 * colors), and each call appends 3
\* positions, 1 colour and 2 uvs for every vertex it appends.
C1_LengthsAgree ==
    /\ Len(mesh.vertices) = Len(mesh.colors) * 3
    /\ Len(mesh.uvs) * 3 = Len(mesh.vertices) * 2
    /\ Len(newVertices) = 3 * Len(newColors)
    /\ Len(newUvs) = 2 * Len(newColors)

C1_Witness ==
    /\ call.op = "addPolygon"
    /\ nBefore > 0
    /\ Len(newColors) = 5
    /\ Len(mesh.colors) > 5

\* C2: every index a call appends to triangles refers to a vertex that call
\* appended, so every index in triangles is below the vertex count.
C2_IndicesInRange ==
    /\ \A i \in 1..Len(newTriangles) :
         nBefore <= newTriangles[i] /\ newTriangles[i] < nAfter
    /\ \A i \in 1..Len(mesh.triangles) :
         0 <= mesh.triangles[i] /\ mesh.triangles[i] < nAfter

C2_Witness ==
    /\ call.op = "addPolygon"
    /\ nBefore > 0
    /\ Len(newTriangles) = 6
    /\ \E i \in 1..Len(newTriangles) : newTriangles[i] = nAfter - 1

\* C3: addTriangle with hasBackSide appends 6 vertices and 6 indices, and its
\* second triangle, read through its indices, is (v2, v1, v0).
C3_BackSideReversed ==
    (call.op = "addTriangle" /\ call.go.hasBackSide) =>
        LET v == [i \in 1..3 |-> <<call.points[i][1], call.points[i][3], call.points[i][2]>>]
        IN  /\ nAfter - nBefore = 6
            /\ Len(newTriangles) = 6
            /\ trianglePoints(2) = <<v[3], v[2], v[1]>>

\* the elevation of point i of the last addPolygon without its noise term
baseElevation(i) ==
    call.go.heightOffset
    + (IF call.go.elevation > Lowest THEN call.go.elevation
       ELSE getElevation(call.io.points[2 * i], call.io.points[2 * i - 1]))

noiseTerm(i) ==
    perlin2D(call.io.points[2 * i - 1], call.io.points[2 * i], call.go.eleNoiseFreq)

C5_Winding ==
    call.op = "addPolygon" =>
        LET io == call.io
            other == fillMesh(io, call.before, [call.go EXCEPT !.flipSide = ~@], call.ao)
        IN  /\ Len(newTriangles) = 3 * io.numberoftriangles
            /\ \A t \in 1..io.numberoftriangles :
                 LET c0 == io.triangles[3 * t - 2]
                     c1 == io.triangles[3 * t - 1]
                     c2 == io.triangles[3 * t]
                 IN  <<newTriangles[3 * t - 2], newTriangles[3 * t - 1], newTriangles[3 * t]>>
                     = IF call.go.flipSide
                       THEN <<nBefore + c2, nBefore + c0, nBefore + c1>>
                       ELSE <<nBefore + c1, nBefore + c0, nBefore + c2>>
            /\ other.vertices = mesh.vertices
            /\ other.colors = mesh.colors
            /\ other.uvs = mesh.uvs

C5_Witness ==
    /\ call.op = "addPolygon"
    /\ call.go.flipSide
    /\ nBefore > 0
    /\ call.io.numberoftriangles = 2
    /\ newTriangles[1] # newTriangles[3]

\* the two ends of the last plane at their base and top elevations
planeBase(k) == <<call.points[k][1], call.points[k][2], call.elevations[k]>>
planeTop(k) ==
    <<call.points[k][1], call.points[k][2], call.elevations[k] + call.go.heightOffset>>

\* C6: addPlane appends 6 vertices and 6 indices; the 3rd and 4th vertices
\* have the (x, y) of the 2nd and 1st and their elevation plus heightOffset.
C6_PlaneShape ==
    isPlane =>
        /\ nAfter - nBefore = 6
        /\ Len(newTriangles) = 6
        /\ appended(1) = planeBase(1)
        /\ appended(2) = planeBase(2)
        /\ appended(3) = <<appended(2)[1], appended(2)[2],
                           appended(2)[3] + call.go.heightOffset>>
        /\ appended(4) = <<appended(1)[1], appended(1)[2],
                           appended(1)[3] + call.go.heightOffset>>

C6_Witness ==
    /\ isPlane
    /\ nBefore > 0
    /\ call.points[1] # call.points[2]
    /\ appended(3) = planeTop(2)
    /\ appended(4) = planeTop(1)
    /\ appended(3) # appended(2)

\* C7 as stated: read through their indices, the two triangles of a plane are
\* (p1@base, p2@base, p2@top) and (p1@top, p1@base, p2@top).
C7_TrianglesInAppendOrder ==
    isPlane =>
        /\ trianglePoints(1) = <<planeBase(1), planeBase(2), planeTop(2)>>
        /\ trianglePoints(2) = <<planeTop(1), planeBase(1), planeTop(2)>>

\* C7 amended: the six vertices are appended in the order (p1@base, p2@base,
\* p2@top), (p1@top, p1@base, p2@top); the indices swap the last two of each
\* three, so that read through their indices the two triangles are
\* (p1@base, p2@top, p2@base) and (p1@top, p2@top, p1@base).
C7_TrianglesSwapLastTwo ==
    isPlane =>
        /\ <<appended(1), appended(2), appended(3)>>
           = <<planeBase(1), planeBase(2), planeTop(2)>>
        /\ <<appended(4), appended(5), appended(6)>>
           = <<planeTop(1), planeBase(1), planeTop(2)>>
        /\ newTriangles = <<nBefore, nBefore + 2, nBefore + 1,
                            nBefore + 3, nBefore + 5, nBefore + 4>>
        /\ trianglePoints(1) = <<planeBase(1), planeTop(2), planeBase(2)>>
        /\ trianglePoints(2) = <<planeTop(1), planeTop(2), planeBase(1)>>

C7_Witness ==
    /\ isPlane
    /\ nBefore > 0
    /\ call.points[1] # call.points[2]
    /\ trianglePoints(1)[2] = planeTop(2)
    /\ trianglePoints(1)[2] # planeBase(2)

\* C8: every call leaves what the four sequences of the Mesh held as a prefix
\* of what they hold afterwards.
C8_AppendOnly ==
    [][/\ IsPrefix(mesh.vertices, mesh'.vertices)
       /\ IsPrefix(mesh.triangles, mesh'.triangles)
       /\ IsPrefix(mesh.colors, mesh'.colors)
       /\ IsPrefix(mesh.uvs, mesh'.uvs)]_vars

C8_Witness ==
    /\ call.op = "addPolygon"
    /\ Len(call.before.vertices) > 0
    /\ Len(mesh.vertices) > Len(call.before.vertices)
    /\ Len(mesh.triangles) > Len(call.before.triangles)
    /\ mesh.capacity.uvs > call.before.capacity.uvs

\* C9: a call whose textureRegion is empty appends no uv other than 0.
C9_EmptyRegionZeroUv ==
    (call.op # "none" /\ isEmpty(call.ao.textureRegion)) =>
        \A i \in 1..Len(newUvs) : newUvs[i] = 0

C9_Witness ==
    /\ call.op = "addPolygon"
    /\ isEmpty(call.ao.textureRegion)
    /\ nBefore > 0
    /\ Len(newUvs) = 10
    /\ \E i \in 1..5 : appended(i)[1] # 0 /\ appended(i)[2] # 0

\* the buffers the last call allocated, and the places of its log where it
\* read and released buffer b
allocatedBuffers == {e[2] : e \in {x \in Range(call.log) : x[1] = "malloc"}}
eventsAt(kind, b) == {i \in 1..Len(call.log) : call.log[i] = <<kind, b>>}

CallerOwned == {"polygon.points", "polygon.holes", "polygon.segments"}

\* C10: addPolygon releases every buffer allocated for the triangulation
\* exactly once, after the last read of it, and releases nothing else, the
\* buffers of the Polygon least of all.
C10_ReleasedOnce ==
    call.op = "addPolygon" =>
        /\ \A b \in allocatedBuffers :
             /\ Cardinality(eventsAt("free", b)) = 1
             /\ \A f \in eventsAt("free", b) :
                  \A i \in eventsAt("read", b) \cup eventsAt("malloc", b) : i < f
        /\ \A i \in 1..Len(call.log) :
             call.log[i][1] = "free" =>
                 call.log[i][2] \in allocatedBuffers \ CallerOwned
        /\ \A i \in 1..Len(call.log) :
             call.log[i][1] = "read" =>
                 call.log[i][2] \in allocatedBuffers \cup CallerOwned
        /\ {call.io.pointlist, call.io.trianglelist} \subseteq allocatedBuffers

C10_Witness ==
    /\ call.op = "addPolygon"
    /\ call.refined
    /\ allocatedBuffers = {"mid.pointlist", "mid.trianglelist", "mid.segmentlist",
                           "mid.trianglearealist", "out.pointlist",
                           "out.pointmarkerlist", "out.trianglelist"}
    /\ eventsAt("read", "out.pointmarkerlist") # {}
    /\ eventsAt("read", "out.trianglelist") # {}
    /\ eventsAt("read", "polygon.segments") # {}

====
